---- MODULE Spec2Model ----
(***************************************************************************)
(* State-machine model of the e-commerce API of src/server.js: the three   *)
(* in-memory tables (users, products, orders), the register handler with   *)
(* its awaited password hash, the cart handlers and the order handlers.    *)
(*                                                                         *)
(* Money is kept in cents.  Cart lines are JavaScript objects, so they     *)
(* live in a heap and carts and orders hold references to them; two        *)
(* holders of one reference see each other's writes.                       *)
(***************************************************************************)
EXTENDS Integers, Sequences, FiniteSets, Bags, TLC

VARIABLES users, products, orders, heap, pending, res

vars == <<users, products, orders, heap, pending, res>>

(* ------------------------------ bounds --------------------------------- *)

\* Largest number of users (registered plus in flight) the model follows.
MaxUsers == 2
\* Largest number of cart-line objects alive at once, in carts and in orders
\* together (an order keeps its lines for ever, so this bounds the orders too).
MaxLines == 2
\* Largest quantity a request body carries.
MaxQty == 1
\* Largest magnitude of a cart line's quantity the model follows.
MaxLineQty == 2

(* ------------------------------ inputs --------------------------------- *)

\* "" stands for a field that is missing or empty in the JSON body (falsy).
Usernames == {"", "al", "bo"}
Emails == {"", "a@x.com", "b@x.com"}
Passwords == {"", "pw123456"}

RegisterBodies == [username : Usernames, email : Emails, password : Passwords]

\* The bodies of POST /api/auth/login; "letmein" is no user's password.
LoginBodies == [email : Emails, password : Passwords \cup {"letmein"}]

\* The register bodies of the shopping runs: every client registers with the
\* same complete body.
ShopRegisterBodies == {[username |-> "al", email |-> "a@x.com", password |-> "pw123456"]}

\* productId values of a POST /api/cart body; 0 is falsy, 9 names no product.
BodyProductIds == {0, 1, 2, 9}
\* quantity values of a request body; 0 is falsy, negatives are not filtered.
Quantities == (-1) .. MaxQty

\* Path parameters arrive as strings (sequences of characters).
PathParams == {<<"1">>, <<"2">>, <<"x">>}

(* --------------------------- JS conversions ---------------------------- *)

DigitChars == <<"0", "1", "2", "3", "4", "5", "6", "7", "8", "9">>

Digit(d) == DigitChars[d + 1]

IsDigit(ch) == \E d \in 0 .. 9 : Digit(d) = ch

DigitVal(ch) == CHOOSE d \in 0 .. 9 : Digit(d) = ch

Abs(n) == IF n < 0 THEN -n ELSE n

RECURSIVE Digits(_)
Digits(n) == IF n < 10 THEN <<Digit(n)>>
             ELSE Digits(n \div 10) \o <<Digit(n % 10)>>

RECURSIVE DigitsValue(_)
DigitsValue(s) == IF s = <<>> THEN 0
                  ELSE 10 * DigitsValue(SubSeq(s, 1, Len(s) - 1)) + DigitVal(s[Len(s)])

\* Longest prefix of s made of decimal digits.
RECURSIVE DigitPrefix(_)
DigitPrefix(s) == IF s = <<>> \/ ~IsDigit(Head(s)) THEN <<>>
                  ELSE <<Head(s)>> \o DigitPrefix(Tail(s))

\* Number.prototype.toFixed(2) of an amount given in cents.
ToFixed2(c) ==
  LET a == Abs(c)
  IN  (IF c < 0 THEN <<"-">> ELSE <<>>)
        \o Digits(a \div 100) \o <<".">>
        \o <<Digit((a % 100) \div 10), Digit(a % 10)>>

\* parseFloat of a decimal string; the result in cents.
ParseFloat(s) ==
  LET neg   == s # <<>> /\ Head(s) = "-"
      body  == IF neg THEN Tail(s) ELSE s
      whole == DigitPrefix(body)
      rest  == SubSeq(body, Len(whole) + 1, Len(body))
      frac  == IF rest # <<>> /\ Head(rest) = "." THEN DigitPrefix(Tail(rest)) ELSE <<>>
      f1    == IF Len(frac) >= 1 THEN DigitVal(frac[1]) ELSE 0
      f2    == IF Len(frac) >= 2 THEN DigitVal(frac[2]) ELSE 0
      mag   == 100 * DigitsValue(whole) + 10 * f1 + f2
  IN  IF neg THEN -mag ELSE mag

\* parseInt of a path parameter: the leading digits, NaN when there are none.
ParseInt(s) ==
  LET d == DigitPrefix(s)
  IN  IF d = <<>> THEN [nan |-> TRUE, val |-> 0]
      ELSE [nan |-> FALSE, val |-> DigitsValue(d)]

\* n === parseInt(...): NaN is equal to nothing.
StrictEq(n, pi) == ~pi.nan /\ pi.val = n

\* bcrypt.hash(password, 10): a tagged digest of the password.
Hash(password) == <<"$2a$10$", password>>

\* bcrypt.compare(password, hash): does the digest come from password?
Compare(password, hash) == hash = Hash(password)

\* jwt.sign({id, email}, process.env.JWT_SECRET, {expiresIn: '24h'})
Sign(payload) == <<"jwt", payload, "24h">>

(* ------------------------------ tables --------------------------------- *)

\* The preloaded catalogue (prices in cents).
ProductData ==
  << [id |-> 1, name |-> "Laptop", price |-> 1050, stock |-> 1],
     [id |-> 2, name |-> "Mouse",  price |-> 705,  stock |-> 1] >>

NoResponse == [op |-> "none", uid |-> 0, status |-> 0, message |-> "", data |-> <<>>]

Response(op, uid, status, message, data) ==
  [op |-> op, uid |-> uid, status |-> status, message |-> message, data |-> data]

Init ==
  /\ users = <<>>
  /\ products = ProductData
  /\ orders = <<>>
  /\ heap = <<>>
  /\ pending = EmptyBag
  /\ res = NoResponse

\* Array.prototype.find, given for each element whether the callback accepts
\* it: the index of the first accepted element, 0 if there is none.
FindIndex(accepts) ==
  IF \E i \in DOMAIN accepts : accepts[i]
  THEN CHOOSE i \in DOMAIN accepts : accepts[i] /\ \A j \in 1 .. (i - 1) : ~accepts[j]
  ELSE 0

(* ---------------------------- registration ----------------------------- *)

\* RegisterCheck without the existence check of lines 44-50.
RegisterCheck_NoExistenceCheck(body) ==
  IF body.username = "" \/ body.email = "" \/ body.password = ""
  THEN /\ res' = Response("register", 0, 400, "Please provide username, email, and password", <<>>)
       /\ UNCHANGED <<users, products, orders, heap, pending>>
  ELSE /\ Len(users) + BagCardinality(pending) < MaxUsers
       /\ pending' = pending (+) SetToBag({body})
       /\ UNCHANGED <<users, products, orders, heap, res>>

\* POST /api/auth/register up to the awaited hash: validation and the
\* existence check.  A request that passes both is suspended in pending.
RegisterCheck(body) ==
  IF body.username = "" \/ body.email = "" \/ body.password = ""
  THEN /\ res' = Response("register", 0, 400, "Please provide username, email, and password", <<>>)
       /\ UNCHANGED <<users, products, orders, heap, pending>>
  ELSE IF FindIndex([i \in DOMAIN users |-> users[i].email = body.email]) # 0
  THEN /\ res' = Response("register", 0, 400, "Email already registered", <<>>)
       /\ UNCHANGED <<users, products, orders, heap, pending>>
  ELSE /\ Len(users) + BagCardinality(pending) < MaxUsers
       /\ pending' = pending (+) SetToBag({body})
       /\ UNCHANGED <<users, products, orders, heap, res>>

\* RegisterCreate with id: users.length || 1.
RegisterCreate_IdFromLength(body) ==
  /\ BagIn(body, pending)
  /\ LET newUser == [id |-> IF Len(users) = 0 THEN 1 ELSE Len(users),
                     username |-> body.username,
                     email |-> body.email, password |-> Hash(body.password),
                     cart |-> <<>>]
     IN  /\ users' = Append(users, newUser)
         /\ res' = Response("register", 0, 201, "Registration successful! You can now login",
                            [id |-> newUser.id, username |-> newUser.username,
                             email |-> newUser.email])
  /\ pending' = pending (-) SetToBag({body})
  /\ UNCHANGED <<products, orders, heap>>

\* POST /api/auth/register after the hash resolves: build the user with
\* id users.length + 1, push it, answer 201.
RegisterCreate(body) ==
  /\ BagIn(body, pending)
  /\ LET newUser == [id |-> Len(users) + 1, username |-> body.username,
                     email |-> body.email, password |-> Hash(body.password),
                     cart |-> <<>>]
     IN  /\ users' = Append(users, newUser)
         /\ res' = Response("register", 0, 201, "Registration successful! You can now login",
                            [id |-> newUser.id, username |-> newUser.username,
                             email |-> newUser.email])
  /\ pending' = pending (-) SetToBag({body})
  /\ UNCHANGED <<products, orders, heap>>

(* -------------------------------- login -------------------------------- *)

\* LoginResponse that tells an unknown email from a wrong password.
LoginResponse_TellsUnknownEmail(body) ==
  IF body.email = "" \/ body.password = ""
  THEN Response("login", 0, 400, "Please provide email and password", <<>>)
  ELSE
  LET ui == FindIndex([i \in DOMAIN users |-> users[i].email = body.email])
      user == users[ui]
  IN  IF ui = 0
      THEN Response("login", 0, 400, "User not found", <<>>)
      ELSE IF ~Compare(body.password, user.password)
      THEN Response("login", 0, 400, "Invalid email or password", <<>>)
      ELSE Response("login", 0, 200, "Login successful!",
                    [token |-> Sign([id |-> user.id, email |-> user.email]),
                     user |-> [id |-> user.id, username |-> user.username,
                               email |-> user.email]])

\* The answer of POST /api/auth/login to a body, in the current state.
LoginResponse(body) ==
  IF body.email = "" \/ body.password = ""
  THEN Response("login", 0, 400, "Please provide email and password", <<>>)
  ELSE
  LET ui == FindIndex([i \in DOMAIN users |-> users[i].email = body.email])
      user == users[ui]
  IN  IF ui = 0
      THEN Response("login", 0, 400, "Invalid email or password", <<>>)
      ELSE IF ~Compare(body.password, user.password)
      THEN Response("login", 0, 400, "Invalid email or password", <<>>)
      ELSE Response("login", 0, 200, "Login successful!",
                    [token |-> Sign([id |-> user.id, email |-> user.email]),
                     user |-> [id |-> user.id, username |-> user.username,
                               email |-> user.email]])

\* POST /api/auth/login.  The handler awaits bcrypt.compare, but it writes
\* nothing and the user object it holds across the await is never changed
\* in the fields it reads, so the request is one step.
Login(body) ==
  /\ res' = LoginResponse(body)
  /\ UNCHANGED <<users, products, orders, heap, pending>>

(* ------------------------------- heap ---------------------------------- *)

\* Concatenation of a sequence of sequences.
RECURSIVE Flatten(_)
Flatten(ss) == IF ss = <<>> THEN <<>> ELSE Head(ss) \o Flatten(Tail(ss))

\* Every reference held by a cart or by an order, carts first.
Roots(us, os) ==
  Flatten([i \in 1 .. Len(us) |-> us[i].cart]) \o Flatten([i \in 1 .. Len(os) |-> os[i].items])

\* Object addresses are not observable: the tables us, os over the heap h
\* are stored with the reachable objects numbered in the order of Roots and
\* the unreachable ones collected.
Commit(us, os, h) ==
  LET roots == Roots(us, os)
      live == {roots[i] : i \in 1 .. Len(roots)}
      FirstPos(r) == CHOOSE i \in 1 .. Len(roots) :
                       roots[i] = r /\ \A j \in 1 .. (i - 1) : roots[j] # r
      Rank(r) == Cardinality({s \in live : FirstPos(s) <= FirstPos(r)})
      Rename(refs) == [j \in 1 .. Len(refs) |-> Rank(refs[j])]
  IN  /\ heap' = [k \in 1 .. Cardinality(live) |-> h[CHOOSE r \in live : Rank(r) = k]]
      /\ users' = [i \in 1 .. Len(us) |-> [us[i] EXCEPT !.cart = Rename(@)]]
      /\ orders' = [i \in 1 .. Len(os) |-> [os[i] EXCEPT !.items = Rename(@)]]

\* The objects a sequence of references points to, as the JSON body shows them.
Deref(refs, h) == [j \in 1 .. Len(refs) |-> h[refs[j]]]

OrderView(o, h) == [o EXCEPT !.items = Deref(@, h)]

(* --------------------------- authentication ---------------------------- *)

\* authenticateToken: req.user.id is the id of the user the token was
\* issued to at login.
Authenticated(uid) == \E i \in 1 .. Len(users) : users[i].id = uid

\* users.find(u => u.id === req.user.id)
UserIndex(uid) == FindIndex([i \in DOMAIN users |-> users[i].id = uid])

\* products.find(p => p.id === productId)
ProductIndex(ps, productId) == FindIndex([i \in DOMAIN ps |-> ps[i].id = productId])

(* -------------------------------- cart --------------------------------- *)

\* CartTotal that adds each line's price once, whatever its quantity.
RECURSIVE CartTotal_PriceOnly(_, _)
CartTotal_PriceOnly(cart, h) ==
  IF cart = <<>> THEN 0
  ELSE CartTotal_PriceOnly(SubSeq(cart, 1, Len(cart) - 1), h) + h[cart[Len(cart)]].price

\* user.cart.reduce((sum, item) => sum + item.price * item.quantity, 0)
\* of GET /api/cart.
RECURSIVE CartTotal(_, _)
CartTotal(cart, h) ==
  IF cart = <<>> THEN 0
  ELSE CartTotal(SubSeq(cart, 1, Len(cart) - 1), h)
         + h[cart[Len(cart)]].price * h[cart[Len(cart)]].quantity

\* GET /api/cart
GetCart(uid) ==
  /\ Authenticated(uid)
  /\ LET user == users[UserIndex(uid)]
         cartTotal == CartTotal(user.cart, heap)
     IN  res' = Response("getCart", uid, 200, "",
                         [itemCount |-> Len(user.cart), total |-> ToFixed2(cartTotal),
                          items |-> Deref(user.cart, heap)])
  /\ UNCHANGED <<users, products, orders, heap, pending>>

\* AddToCart that merges or pushes before it compares the quantity with the
\* stock, and answers 400 afterwards.
AddToCart_PushBeforeStockCheck(uid, productId, quantity) ==
  /\ Authenticated(uid)
  /\ IF productId = 0 \/ quantity = 0
     THEN /\ res' = Response("addToCart", uid, 400, "Please provide productId and quantity", <<>>)
          /\ UNCHANGED <<users, products, orders, heap, pending>>
     ELSE
     LET ui == UserIndex(uid)
         user == users[ui]
         pi == ProductIndex(products, productId)
     IN  IF pi = 0
         THEN /\ res' = Response("addToCart", uid, 404, "Product not found", <<>>)
              /\ UNCHANGED <<users, products, orders, heap, pending>>
         ELSE
         LET ei == FindIndex([i \in DOMAIN user.cart |-> heap[user.cart[i]].productId = productId])
             existingItem == user.cart[ei]
             newItem == [productId |-> productId, name |-> products[pi].name,
                         price |-> products[pi].price, quantity |-> quantity]
             h1 == IF ei # 0
                   THEN [heap EXCEPT ![existingItem].quantity = @ + quantity]
                   ELSE Append(heap, newItem)
             cart1 == IF ei # 0 THEN user.cart ELSE Append(user.cart, Len(heap) + 1)
         IN  /\ ei # 0 => Abs(heap[existingItem].quantity + quantity) <= MaxLineQty
             /\ ei = 0 => Len(heap) < MaxLines
             /\ Commit([users EXCEPT ![ui].cart = cart1], orders, h1)
             /\ res' = IF products[pi].stock < quantity
                       THEN Response("addToCart", uid, 400, "Only ${product.stock} items in stock",
                                     products[pi].stock)
                       ELSE Response("addToCart", uid, 200, "${product.name} added to cart",
                                     Deref(cart1, h1))
             /\ UNCHANGED <<products, pending>>

\* AddToCart that pushes a new line even when the product is in the cart.
AddToCart_AlwaysAppends(uid, productId, quantity) ==
  /\ Authenticated(uid)
  /\ IF productId = 0 \/ quantity = 0
     THEN /\ res' = Response("addToCart", uid, 400, "Please provide productId and quantity", <<>>)
          /\ UNCHANGED <<users, products, orders, heap, pending>>
     ELSE
     LET ui == UserIndex(uid)
         user == users[ui]
         pi == ProductIndex(products, productId)
     IN  IF pi = 0
         THEN /\ res' = Response("addToCart", uid, 404, "Product not found", <<>>)
              /\ UNCHANGED <<users, products, orders, heap, pending>>
         ELSE IF products[pi].stock < quantity
         THEN /\ res' = Response("addToCart", uid, 400, "Only ${product.stock} items in stock",
                                 products[pi].stock)
              /\ UNCHANGED <<users, products, orders, heap, pending>>
         ELSE
         LET newItem == [productId |-> productId, name |-> products[pi].name,
                         price |-> products[pi].price, quantity |-> quantity]
             h1 == Append(heap, newItem)
             cart1 == Append(user.cart, Len(heap) + 1)
         IN  /\ Len(heap) < MaxLines
             /\ Commit([users EXCEPT ![ui].cart = cart1], orders, h1)
             /\ res' = Response("addToCart", uid, 200, "${product.name} added to cart",
                                Deref(cart1, h1))
             /\ UNCHANGED <<products, pending>>

\* POST /api/cart
AddToCart(uid, productId, quantity) ==
  /\ Authenticated(uid)
  /\ IF productId = 0 \/ quantity = 0
     THEN /\ res' = Response("addToCart", uid, 400, "Please provide productId and quantity", <<>>)
          /\ UNCHANGED <<users, products, orders, heap, pending>>
     ELSE
     LET ui == UserIndex(uid)
         user == users[ui]
         pi == ProductIndex(products, productId)
     IN  IF pi = 0
         THEN /\ res' = Response("addToCart", uid, 404, "Product not found", <<>>)
              /\ UNCHANGED <<users, products, orders, heap, pending>>
         ELSE IF products[pi].stock < quantity
         THEN /\ res' = Response("addToCart", uid, 400, "Only ${product.stock} items in stock",
                                 products[pi].stock)
              /\ UNCHANGED <<users, products, orders, heap, pending>>
         ELSE
         LET ei == FindIndex([i \in DOMAIN user.cart |-> heap[user.cart[i]].productId = productId])
             existingItem == user.cart[ei]
             newItem == [productId |-> productId, name |-> products[pi].name,
                         price |-> products[pi].price, quantity |-> quantity]
             h1 == IF ei # 0
                   THEN [heap EXCEPT ![existingItem].quantity = @ + quantity]
                   ELSE Append(heap, newItem)
             cart1 == IF ei # 0 THEN user.cart ELSE Append(user.cart, Len(heap) + 1)
         IN  /\ ei # 0 => Abs(heap[existingItem].quantity + quantity) <= MaxLineQty
             /\ ei = 0 => Len(heap) < MaxLines
             /\ Commit([users EXCEPT ![ui].cart = cart1], orders, h1)
             /\ res' = Response("addToCart", uid, 200, "${product.name} added to cart",
                                Deref(cart1, h1))
             /\ UNCHANGED <<products, pending>>

\* UpdateCartItem whose quantity 0 empties the whole cart.
UpdateCartItem_ClearsCart(uid, param, quantity) ==
  /\ Authenticated(uid)
  /\ LET productId == ParseInt(param)
         ui == UserIndex(uid)
         user == users[ui]
         ci == FindIndex([i \in DOMAIN user.cart |-> StrictEq(heap[user.cart[i]].productId, productId)])
         cartItem == user.cart[ci]
     IN  IF ci = 0
         THEN /\ res' = Response("updateCartItem", uid, 404, "Item not in cart", <<>>)
              /\ UNCHANGED <<users, products, orders, heap, pending>>
         ELSE IF quantity = 0
         THEN /\ Commit([users EXCEPT ![ui].cart = <<>>], orders, heap)
              /\ res' = Response("updateCartItem", uid, 200, "Item removed from cart", <<>>)
              /\ UNCHANGED <<products, pending>>
         ELSE LET h1 == [heap EXCEPT ![cartItem].quantity = quantity]
              IN  /\ Commit(users, orders, h1)
                  /\ res' = Response("updateCartItem", uid, 200, "Cart updated",
                                     Deref(user.cart, h1))
                  /\ UNCHANGED <<products, pending>>

\* PUT /api/cart/:productId
UpdateCartItem(uid, param, quantity) ==
  /\ Authenticated(uid)
  /\ LET productId == ParseInt(param)
         ui == UserIndex(uid)
         user == users[ui]
         ci == FindIndex([i \in DOMAIN user.cart |-> StrictEq(heap[user.cart[i]].productId, productId)])
         cartItem == user.cart[ci]
     IN  IF ci = 0
         THEN /\ res' = Response("updateCartItem", uid, 404, "Item not in cart", <<>>)
              /\ UNCHANGED <<users, products, orders, heap, pending>>
         ELSE IF quantity = 0
         THEN LET cart1 == SelectSeq(user.cart,
                                     LAMBDA r : ~StrictEq(heap[r].productId, productId))
              IN  /\ Commit([users EXCEPT ![ui].cart = cart1], orders, heap)
                  /\ res' = Response("updateCartItem", uid, 200, "Item removed from cart",
                                     Deref(cart1, heap))
                  /\ UNCHANGED <<products, pending>>
         ELSE LET h1 == [heap EXCEPT ![cartItem].quantity = quantity]
              IN  /\ Commit(users, orders, h1)
                  /\ res' = Response("updateCartItem", uid, 200, "Cart updated",
                                     Deref(user.cart, h1))
                  /\ UNCHANGED <<products, pending>>

\* DELETE /api/cart/:productId
RemoveCartItem(uid, param) ==
  /\ Authenticated(uid)
  /\ LET productId == ParseInt(param)
         ui == UserIndex(uid)
         user == users[ui]
         itemExists == FindIndex([i \in DOMAIN user.cart |-> StrictEq(heap[user.cart[i]].productId, productId)])
     IN  IF itemExists = 0
         THEN /\ res' = Response("removeCartItem", uid, 404, "Item not in cart", <<>>)
              /\ UNCHANGED <<users, products, orders, heap, pending>>
         ELSE LET cart1 == SelectSeq(user.cart,
                                     LAMBDA r : ~StrictEq(heap[r].productId, productId))
              IN  /\ Commit([users EXCEPT ![ui].cart = cart1], orders, heap)
                  /\ res' = Response("removeCartItem", uid, 200, "Item removed from cart",
                                     Deref(cart1, heap))
                  /\ UNCHANGED <<products, pending>>

\* ClearCart that empties the cart of every user.
ClearCart_AllUsers(uid) ==
  /\ Authenticated(uid)
  /\ Commit([i \in DOMAIN users |-> [users[i] EXCEPT !.cart = <<>>]], orders, heap)
  /\ res' = Response("clearCart", uid, 200, "Cart cleared", <<>>)
  /\ UNCHANGED <<products, pending>>

\* DELETE /api/cart
ClearCart(uid) ==
  /\ Authenticated(uid)
  /\ Commit([users EXCEPT ![UserIndex(uid)].cart = <<>>], orders, heap)
  /\ res' = Response("clearCart", uid, 200, "Cart cleared", <<>>)
  /\ UNCHANGED <<products, pending>>

(* ------------------------------- orders -------------------------------- *)

\* user.cart.reduce((sum, item) => sum + item.price * item.quantity, 0)
\* of POST /api/orders.
RECURSIVE OrderTotal(_, _)
OrderTotal(cart, h) ==
  IF cart = <<>> THEN 0
  ELSE OrderTotal(SubSeq(cart, 1, Len(cart) - 1), h)
         + h[cart[Len(cart)]].price * h[cart[Len(cart)]].quantity

\* UpdateStock that takes the first line's quantity only.
UpdateStock_FirstLineOnly(ps, cart, h) ==
  IF cart = <<>> THEN ps
  ELSE LET cartItem == h[Head(cart)]
           pi == ProductIndex(ps, cartItem.productId)
       IN  IF pi # 0 THEN [ps EXCEPT ![pi].stock = @ - cartItem.quantity] ELSE ps

\* UpdateStock that takes one unit per line, whatever the line's quantity.
RECURSIVE UpdateStock_OnePerLine(_, _, _)
UpdateStock_OnePerLine(ps, cart, h) ==
  IF cart = <<>> THEN ps
  ELSE LET cartItem == h[Head(cart)]
           pi == ProductIndex(ps, cartItem.productId)
       IN  UpdateStock_OnePerLine(IF pi # 0 THEN [ps EXCEPT ![pi].stock = @ - 1] ELSE ps,
                                  Tail(cart), h)

\* user.cart.forEach(cartItem => { product.stock -= cartItem.quantity })
RECURSIVE UpdateStock(_, _, _)
UpdateStock(ps, cart, h) ==
  IF cart = <<>> THEN ps
  ELSE LET cartItem == h[Head(cart)]
           pi == ProductIndex(ps, cartItem.productId)
       IN  UpdateStock(IF pi # 0 THEN [ps EXCEPT ![pi].stock = @ - cartItem.quantity] ELSE ps,
                       Tail(cart), h)

\* CreateOrder that numbers each user's orders from 1.
CreateOrder_IdPerUser(uid) ==
  /\ Authenticated(uid)
  /\ LET ui == UserIndex(uid)
         user == users[ui]
     IN  IF Len(user.cart) = 0
         THEN /\ res' = Response("createOrder", uid, 400, "Your cart is empty", <<>>)
              /\ UNCHANGED <<users, products, orders, heap, pending>>
         ELSE
         LET total == OrderTotal(user.cart, heap)
             newOrder == [id |-> Len(SelectSeq(orders, LAMBDA o : o.userId = user.id)) + 1,
                          userId |-> user.id,
                          username |-> user.username, items |-> user.cart,
                          total |-> ParseFloat(ToFixed2(total)), status |-> "pending"]
         IN  /\ products' = UpdateStock(products, user.cart, heap)
             /\ Commit([users EXCEPT ![ui].cart = <<>>], Append(orders, newOrder), heap)
             /\ res' = Response("createOrder", uid, 201, "Order placed successfully!",
                                OrderView(newOrder, heap))
             /\ UNCHANGED pending

\* CreateOrder without the empty-cart check of lines 324-329.
CreateOrder_NoEmptyCheck(uid) ==
  /\ Authenticated(uid)
  /\ LET ui == UserIndex(uid)
         user == users[ui]
         total == OrderTotal(user.cart, heap)
         newOrder == [id |-> Len(orders) + 1, userId |-> user.id,
                      username |-> user.username, items |-> user.cart,
                      total |-> ParseFloat(ToFixed2(total)), status |-> "pending"]
     IN  /\ Len(orders) < MaxLines
         /\ products' = UpdateStock(products, user.cart, heap)
         /\ Commit([users EXCEPT ![ui].cart = <<>>], Append(orders, newOrder), heap)
         /\ res' = Response("createOrder", uid, 201, "Order placed successfully!",
                            OrderView(newOrder, heap))
         /\ UNCHANGED pending

\* CreateOrder that leaves the cart as it is (no user.cart = [] of line 358),
\* so that the order and the cart hold the same line objects.
CreateOrder_KeepsCart(uid) ==
  /\ Authenticated(uid)
  /\ LET ui == UserIndex(uid)
         user == users[ui]
     IN  IF Len(user.cart) = 0
         THEN /\ res' = Response("createOrder", uid, 400, "Your cart is empty", <<>>)
              /\ UNCHANGED <<users, products, orders, heap, pending>>
         ELSE
         LET total == OrderTotal(user.cart, heap)
             newOrder == [id |-> Len(orders) + 1, userId |-> user.id,
                          username |-> user.username, items |-> user.cart,
                          total |-> ParseFloat(ToFixed2(total)), status |-> "pending"]
         IN  /\ Len(orders) < MaxLines
             /\ products' = UpdateStock(products, user.cart, heap)
             /\ Commit(users, Append(orders, newOrder), heap)
             /\ res' = Response("createOrder", uid, 201, "Order placed successfully!",
                                OrderView(newOrder, heap))
             /\ UNCHANGED pending

\* POST /api/orders
CreateOrder(uid) ==
  /\ Authenticated(uid)
  /\ LET ui == UserIndex(uid)
         user == users[ui]
     IN  IF Len(user.cart) = 0
         THEN /\ res' = Response("createOrder", uid, 400, "Your cart is empty", <<>>)
              /\ UNCHANGED <<users, products, orders, heap, pending>>
         ELSE
         LET total == OrderTotal(user.cart, heap)
             newOrder == [id |-> Len(orders) + 1, userId |-> user.id,
                          username |-> user.username, items |-> user.cart,
                          total |-> ParseFloat(ToFixed2(total)), status |-> "pending"]
         IN  /\ products' = UpdateStock(products, user.cart, heap)
             /\ Commit([users EXCEPT ![ui].cart = <<>>], Append(orders, newOrder), heap)
             /\ res' = Response("createOrder", uid, 201, "Order placed successfully!",
                                OrderView(newOrder, heap))
             /\ UNCHANGED pending

\* GET /api/orders
ListOrders(uid) ==
  /\ Authenticated(uid)
  /\ LET userOrders == SelectSeq(orders, LAMBDA o : o.userId = uid)
     IN  res' = Response("listOrders", uid, 200, "",
                         [count |-> Len(userOrders),
                          data |-> [i \in 1 .. Len(userOrders) |-> OrderView(userOrders[i], heap)]])
  /\ UNCHANGED <<users, products, orders, heap, pending>>

\* GetOrder that looks the order up by id alone (no o.userId === req.user.id).
GetOrder_NoOwnerCheck(uid, param) ==
  /\ Authenticated(uid)
  /\ LET oi == FindIndex([i \in DOMAIN orders |-> StrictEq(orders[i].id, ParseInt(param))])
     IN  IF oi = 0
         THEN res' = Response("getOrder", uid, 404, "Order not found", <<>>)
         ELSE res' = Response("getOrder", uid, 200, "", OrderView(orders[oi], heap))
  /\ UNCHANGED <<users, products, orders, heap, pending>>

\* GET /api/orders/:id
GetOrder(uid, param) ==
  /\ Authenticated(uid)
  /\ LET oi == FindIndex([i \in DOMAIN orders |-> StrictEq(orders[i].id, ParseInt(param)) /\ orders[i].userId = uid])
     IN  IF oi = 0
         THEN res' = Response("getOrder", uid, 404, "Order not found", <<>>)
         ELSE res' = Response("getOrder", uid, 200, "", OrderView(orders[oi], heap))
  /\ UNCHANGED <<users, products, orders, heap, pending>>

UserIds == 1 .. MaxUsers

\* The shop: registration with one body, and every cart and order request.
Next ==
  \/ \E body \in ShopRegisterBodies : RegisterCheck(body)
  \/ \E body \in ShopRegisterBodies : RegisterCreate(body)
  \/ \E uid \in UserIds : GetCart(uid)
  \/ \E uid \in UserIds, productId \in BodyProductIds, quantity \in Quantities :
       AddToCart(uid, productId, quantity)
  \/ \E uid \in UserIds, param \in PathParams, quantity \in Quantities :
       UpdateCartItem(uid, param, quantity)
  \/ \E uid \in UserIds, param \in PathParams : RemoveCartItem(uid, param)
  \/ \E uid \in UserIds : ClearCart(uid)
  \/ \E uid \in UserIds : CreateOrder(uid)
  \/ \E uid \in UserIds : ListOrders(uid)
  \/ \E uid \in UserIds, param \in PathParams : GetOrder(uid, param)

Spec == Init /\ [][Next]_vars

\* Registration and login alone, with every body and requests in flight together.
NextAuth ==
  \/ \E body \in RegisterBodies : RegisterCheck(body)
  \/ \E body \in RegisterBodies : RegisterCreate(body)
  \/ \E body \in LoginBodies : Login(body)

SpecAuth == Init /\ [][NextAuth]_vars

(* ============================== claims ================================= *)

RegisteredEmails == {users[i].email : i \in 1 .. Len(users)}

\* C1: once a register request for email e has completed (a user with email
\* e is in the table), every later register request with email e is answered
\* 400, with 'Email already registered' when its fields are all present, and
\* neither the users table nor the requests in flight change.
C1_DuplicateEmailRejected ==
  [][\A body \in RegisterBodies :
       (body.email \in RegisteredEmails /\ RegisterCheck(body))
         => /\ res'.op = "register" /\ res'.status = 400
            /\ (body.username # "" /\ body.password # ""
                  => res'.message = "Email already registered")
            /\ users' = users
            /\ pending' = pending]_vars

\* C1 witness: a register request was answered 'Email already registered'.
C1_Witness ==
  /\ res.op = "register" /\ res.status = 400
  /\ res.message = "Email already registered"
  /\ Len(users) >= 1

\* C2: no two entries of the users table have the same email.
C2_EmailsUnique ==
  \A i, j \in 1 .. Len(users) : i # j => users[i].email # users[j].email

(* ----------------------- vocabulary of the claims ----------------------- *)

\* The lines of user uid's cart, as values.
CartLines(uid) == Deref(users[UserIndex(uid)].cart, heap)

CartLinesNext(uid) == Deref(users'[UserIndex(uid)].cart, heap')

\* Sum of the values of a function with a finite domain.
RECURSIVE SumOver(_)
SumOver(f) ==
  IF DOMAIN f = {} THEN 0
  ELSE LET x == CHOOSE y \in DOMAIN f : TRUE
       IN  f[x] + SumOver([y \in DOMAIN f \ {x} |-> f[y]])

\* Sum of price * quantity over a sequence of lines.
LinesValue(lines) == SumOver([i \in DOMAIN lines |-> lines[i].price * lines[i].quantity])

\* Total quantity of product pid over a sequence of lines.
LinesQuantity(lines, pid) ==
  SumOver([i \in {k \in DOMAIN lines : lines[k].productId = pid} |-> lines[i].quantity])

ProductIds == {products[i].id : i \in 1 .. Len(products)}

\* C3: the total GET /api/cart returns is the sum of price * quantity over
\* the lines of the caller's cart, and "0.00" for an empty cart.
C3_CartTotalIsSum ==
  res.op = "getCart" =>
    /\ ParseFloat(res.data.total) = LinesValue(CartLines(res.uid))
    /\ res.data.items = CartLines(res.uid)
    /\ (CartLines(res.uid) = <<>> => res.data.total = <<"0", ".", "0", "0">>)

\* C3 witness: a cart total was returned after a checkout, for a cart whose
\* line has a quantity other than 1.
C3_Witness ==
  /\ res.op = "getCart"
  /\ Len(orders) >= 1
  /\ \E i \in DOMAIN res.data.items : res.data.items[i].quantity = 2

\* What the lines of a cart become when quantity q of product pid is merged
\* into them: the line of pid grows by q, or a line for pid is appended.
MergedLines(lines, pid, q) ==
  IF \E k \in DOMAIN lines : lines[k].productId = pid
  THEN [k \in DOMAIN lines |->
          IF lines[k].productId = pid /\ \A j \in 1 .. (k - 1) : lines[j].productId # pid
          THEN [lines[k] EXCEPT !.quantity = @ + q]
          ELSE lines[k]]
  ELSE Append(lines, [productId |-> pid,
                      name |-> products[ProductIndex(products, pid)].name,
                      price |-> products[ProductIndex(products, pid)].price,
                      quantity |-> q])

Rejected400 ==
  /\ res'.status = 400
  /\ UNCHANGED <<users, products, orders, heap>>

\* What C4 promises of a step that adds quantity q of product pid for uid
\* when Accepts holds of a quantity within stock.
AddToCartContract(uid, pid, q, Accepts) ==
  LET stock == products[ProductIndex(products, pid)].stock
  IN  IF q > stock \/ ~Accepts
      THEN Rejected400
      ELSE /\ res'.status = 200
           /\ CartLinesNext(uid) = MergedLines(CartLines(uid), pid, q)
           /\ res'.data = CartLinesNext(uid)

\* C4 as stated: an add of product p with quantity q is rejected with 400
\* when q exceeds p's stock, and otherwise succeeds and merges.
C4_AsStated ==
  [][\A uid \in UserIds, pid \in ProductIds, q \in Quantities :
       (res'.op = "addToCart" /\ AddToCart(uid, pid, q))
         => AddToCartContract(uid, pid, q, TRUE)]_vars

\* C4 amended: an add of product p with quantity q is rejected with 400 when
\* q exceeds p's stock or q is 0; a nonzero q within stock succeeds and
\* merges: the line of p grows by q and no second line appears, or one new
\* line with quantity q and p's current price is appended.
C4_AddToCart ==
  [][\A uid \in UserIds, pid \in ProductIds, q \in Quantities :
       (res'.op = "addToCart" /\ AddToCart(uid, pid, q))
         => AddToCartContract(uid, pid, q, q # 0)]_vars

\* C4 witness: an add was merged into the line the cart already had.
C4_Witness ==
  /\ res.op = "addToCart" /\ res.status = 200
  /\ Len(res.data) = 1
  /\ res.data[1].quantity = 2

\* C5: a checkout of a non-empty cart answers 201, appends one order of the
\* caller with the cart's lines and the cart's total, empties the caller's
\* cart and takes each line's quantity from its product's stock, leaving the
\* other products' stock as it was.
C5_Checkout ==
  [][\A uid \in UserIds :
       (res'.op = "createOrder" /\ Authenticated(uid) /\ CartLines(uid) # <<>> /\ CreateOrder(uid))
         => /\ res'.status = 201
            /\ Len(orders') = Len(orders) + 1
            /\ \A i \in 1 .. Len(orders) : OrderView(orders'[i], heap') = OrderView(orders[i], heap)
            /\ LET order == OrderView(orders'[Len(orders')], heap')
               IN  /\ order.userId = uid
                   /\ order.items = CartLines(uid)
                   /\ order.total = LinesValue(CartLines(uid))
                   /\ res'.data = order
            /\ CartLinesNext(uid) = <<>>
            /\ \A k \in 1 .. Len(products) :
                 /\ products'[k].stock
                      = products[k].stock - LinesQuantity(CartLines(uid), products[k].id)
                 /\ [products'[k] EXCEPT !.stock = 0] = [products[k] EXCEPT !.stock = 0]]_vars

\* C5 witness: a checkout of a two-line cart was answered 201.
C5_Witness ==
  /\ res.op = "createOrder" /\ res.status = 201
  /\ Len(res.data.items) = 2

\* C6: a checkout of an empty cart answers 400 and changes no order, no
\* stock and no cart.
C6_EmptyCheckout ==
  [][\A uid \in UserIds :
       (res'.op = "createOrder" /\ Authenticated(uid) /\ CartLines(uid) = <<>> /\ CreateOrder(uid))
         => Rejected400]_vars

\* C6 witness: a checkout was refused while another user's cart held a line.
C6_Witness ==
  /\ res.op = "createOrder" /\ res.status = 400
  /\ \E i \in 1 .. Len(users) : users[i].cart # <<>>

\* The positions of the orders of user uid in the orders table.
OwnOrders(uid) == {i \in 1 .. Len(orders) : orders[i].userId = uid}

\* C7: GET /api/orders returns exactly the caller's orders, in table order;
\* GET /api/orders/:id returns an order only when the caller owns it, and
\* answers 404 for an id that is absent or names another user's order.
C7_OrdersOfCallerOnly ==
  [][/\ \A uid \in UserIds :
          (res'.op = "listOrders" /\ ListOrders(uid))
            => /\ res'.status = 200
               /\ res'.data.count = Cardinality(OwnOrders(uid))
               /\ Len(res'.data.data) = Cardinality(OwnOrders(uid))
               /\ \A i \in OwnOrders(uid) :
                    res'.data.data[Cardinality({j \in OwnOrders(uid) : j <= i})]
                      = OrderView(orders[i], heap)
     /\ \A uid \in UserIds, param \in PathParams :
          (res'.op = "getOrder" /\ GetOrder(uid, param))
            => LET named == {i \in OwnOrders(uid) : StrictEq(orders[i].id, ParseInt(param))}
               IN  IF named = {}
                   THEN res'.status = 404 /\ res'.data = <<>>
                   ELSE /\ res'.status = 200
                        /\ res'.data.userId = uid
                        /\ \E i \in named : res'.data = OrderView(orders[i], heap)]_vars

\* C7 witness: user 2 asked for an order while every order was user 1's,
\* and was answered 404.
C7_Witness ==
  /\ res.op = "getOrder" /\ res.status = 404 /\ res.uid = 2
  /\ Len(orders) = 2
  /\ \A i \in 1 .. Len(orders) : orders[i].userId = 1

\* C8: every product's stock is >= 0.
C8_StockNonNegative == \A k \in 1 .. Len(products) : products[k].stock >= 0

\* C9: no step raises a product's stock, and only a successful checkout
\* changes it.
C9_StockNeverRaised ==
  [][/\ \A k \in 1 .. Len(products) : products'[k].stock <= products[k].stock
     /\ products' # products => res'.op = "createOrder" /\ res'.status = 201]_vars

\* C10: an order, once in the table, keeps its id, userId, items, total and
\* status 'pending' through every later step.
C10_OrderIsSnapshot ==
  [][/\ Len(orders') >= Len(orders)
     /\ \A i \in 1 .. Len(orders) :
          OrderView(orders'[i], heap') = OrderView(orders[i], heap)
     /\ \A i \in 1 .. Len(orders') : orders'[i].status = "pending"]_vars

\* C10 witness: the owner of an order holds a cart line of a product of that
\* order with another quantity than the order's.
C10_Witness ==
  \E i \in 1 .. Len(orders) :
    \E item \in {heap[r] : r \in {orders[i].items[k] : k \in DOMAIN orders[i].items}} :
      \E j \in DOMAIN CartLines(orders[i].userId) :
        /\ CartLines(orders[i].userId)[j].productId = item.productId
        /\ CartLines(orders[i].userId)[j].quantity # item.quantity

\* A login body with every field present that names no registered email.
UnknownEmail(body) ==
  /\ body.email # "" /\ body.password # ""
  /\ body.email \notin RegisteredEmails

\* A login body with every field present that names a registered email with
\* a password that is not the password of any user of that email.
WrongPassword(body) ==
  /\ body.email # "" /\ body.password # ""
  /\ body.email \in RegisteredEmails
  /\ \A i \in 1 .. Len(users) :
       users[i].email = body.email => users[i].password # Hash(body.password)

\* C11: a login with an unknown email and a login with a registered email
\* and a wrong password are answered alike: the status and the message of
\* the one are those of the other, neither carries a token, and a failed
\* login of either kind changes no table.
C11_LoginFailuresAlike ==
  [][\A b1 \in LoginBodies :
       (res'.op = "login" /\ (UnknownEmail(b1) \/ WrongPassword(b1)) /\ Login(b1))
         => /\ res'.status = 400
            /\ res'.data = <<>>
            /\ \A b2 \in LoginBodies :
                 (UnknownEmail(b2) \/ WrongPassword(b2))
                   => /\ LoginResponse(b2).status = res'.status
                      /\ LoginResponse(b2).message = res'.message
                      /\ LoginResponse(b2).data = <<>>
            /\ UNCHANGED <<users, products, orders, heap, pending>>]_vars

\* C11 witness: a login was refused with the generic message while every
\* email a body can carry was registered, so for a wrong password.
C11_Witness ==
  /\ res.op = "login" /\ res.message = "Invalid email or password"
  /\ \A e \in Emails \ {""} : e \in RegisteredEmails

\* C15: the users table holds the ids 1..n in order, so no two users share
\* an id, whatever register requests were in flight together.
C15_UserIdsSequential ==
  /\ \A i \in 1 .. Len(users) : users[i].id = i
  /\ \A i, j \in 1 .. Len(users) : i # j => users[i].id # users[j].id

\* C15 witness: a user is registered while a request for another email is
\* suspended at the awaited hash.
C15_Witness ==
  /\ Len(users) = 1
  /\ \E body \in RegisterBodies : BagIn(body, pending) /\ body.email # users[1].email

\* The positions of the lines of product id pid (a parsed path parameter)
\* in a sequence of lines.
LinesOf(lines, pid) == {k \in DOMAIN lines : StrictEq(lines[k].productId, pid)}

\* A sequence of lines without its line at position h.
RemovedAt(lines, h) ==
  [k \in 1 .. (Len(lines) - 1) |-> IF k < h THEN lines[k] ELSE lines[k + 1]]

Rejected404 ==
  /\ res'.status = 404
  /\ UNCHANGED <<users, products, orders, heap>>

\* C12: an update of the line of a product answers 404 when the cart has no
\* such line; with quantity 0 it removes exactly that line; with any other
\* quantity it sets that line's quantity to the given value, whatever the
\* stock is; the other lines keep their fields and their order.
C12_UpdateCartItem ==
  [][\A uid \in UserIds, param \in PathParams, q \in Quantities :
       (res'.op = "updateCartItem" /\ res'.uid = uid /\ UpdateCartItem(uid, param, q))
         => LET lines == CartLines(uid)
                hit == LinesOf(lines, ParseInt(param))
            IN  IF hit = {}
                THEN Rejected404
                ELSE /\ res'.status = 200
                     /\ Cardinality(hit) = 1
                     /\ products' = products
                     /\ \A h \in hit :
                          CartLinesNext(uid)
                            = IF q = 0 THEN RemovedAt(lines, h)
                              ELSE [lines EXCEPT ![h].quantity = q]]_vars

\* C12 witness: an update set a quantity in a cart of two lines.
C12_Witness ==
  /\ res.op = "updateCartItem" /\ res.message = "Cart updated"
  /\ Len(res.data) = 2

\* The stock of product pid, a product of the catalogue.
StockOf(pid) == products[ProductIndex(products, pid)].stock

\* The status of the refusal of an add of quantity q of product pid; 0
\* when the add is accepted.
AddRefusal(pid, q) ==
  IF pid = 0 \/ q = 0 THEN 400
  ELSE IF pid \notin ProductIds THEN 404
  ELSE IF q > StockOf(pid) THEN 400
  ELSE 0

\* C13: an add refused for a missing field (400), an unknown product (404)
\* or a quantity above stock (400), and an update or a removal refused for
\* an absent line (404), change no cart, no stock and no order.
C13_RejectedCartRequests ==
  [][/\ \A uid \in UserIds, pid \in BodyProductIds, q \in Quantities :
          (res'.op = "addToCart" /\ res'.uid = uid /\ AddRefusal(pid, q) # 0 /\ AddToCart(uid, pid, q))
            => /\ res'.status = AddRefusal(pid, q)
               /\ UNCHANGED <<users, products, orders, heap, pending>>
     /\ \A uid \in UserIds, param \in PathParams, q \in Quantities :
          (res'.op = "updateCartItem" /\ res'.uid = uid /\ Authenticated(uid)
             /\ LinesOf(CartLines(uid), ParseInt(param)) = {}
             /\ UpdateCartItem(uid, param, q))
            => Rejected404
     /\ \A uid \in UserIds, param \in PathParams :
          (res'.op = "removeCartItem" /\ res'.uid = uid /\ Authenticated(uid)
             /\ LinesOf(CartLines(uid), ParseInt(param)) = {}
             /\ RemoveCartItem(uid, param))
            => Rejected404
     /\ (res'.op \in {"addToCart", "updateCartItem", "removeCartItem"} /\ res' # res
           /\ res'.status \in {400, 404})
          => UNCHANGED <<users, products, orders, heap, pending>>]_vars

\* C13 witness: an add was refused for its quantity above stock while a
\* cart held a line.
C13_Witness ==
  /\ res.op = "addToCart" /\ res.status = 400
  /\ res.message = "Only ${product.stock} items in stock"
  /\ \E i \in 1 .. Len(users) : users[i].cart # <<>>

\* C14: the orders table holds the ids 1..n in creation order, so no two
\* orders share an id.
C14_OrderIdsSequential ==
  /\ \A i \in 1 .. Len(orders) : orders[i].id = i
  /\ \A i, j \in 1 .. Len(orders) : i # j => orders[i].id # orders[j].id

\* C14 witness: two orders of two different users.
C14_Witness ==
  /\ Len(orders) = 2
  /\ orders[1].userId # orders[2].userId

\* The quantity of product pid over the items of every order.
OrderedQuantity(pid) ==
  SumOver([i \in 1 .. Len(orders) |-> LinesQuantity(Deref(orders[i].items, heap), pid)])

\* C16: for every product, the initial stock is the current stock plus the
\* quantity of the product in the orders created so far; what the carts
\* hold does not count.
C16_StockConservation ==
  \A k \in 1 .. Len(products) :
    ProductData[k].stock = products[k].stock + OrderedQuantity(products[k].id)

\* C16 witness: an order took stock while a cart holds a line.
C16_Witness ==
  /\ Len(orders) >= 1
  /\ products # ProductData
  /\ \E i \in 1 .. Len(users) : users[i].cart # <<>>

\* C17: the lines of a cart name pairwise different products, each a
\* product of the catalogue.
C17_OneLinePerProduct ==
  \A i \in 1 .. Len(users) :
    LET lines == Deref(users[i].cart, heap)
    IN  /\ \A j, k \in DOMAIN lines : j # k => lines[j].productId # lines[k].productId
        /\ \A j \in DOMAIN lines : lines[j].productId \in ProductIds

\* C17 witness: a cart of two lines, one of them grown by a merge.
C17_Witness ==
  \E i \in 1 .. Len(users) :
    /\ Len(users[i].cart) = 2
    /\ \E j \in DOMAIN users[i].cart : heap[users[i].cart[j]].quantity = 2

\* C18: every cart line has a quantity of at least 1, and no cart total and
\* no order total is negative.
C18_QuantitiesPositive ==
  /\ \A i \in 1 .. Len(users) :
       /\ \A j \in DOMAIN users[i].cart : heap[users[i].cart[j]].quantity >= 1
       /\ LinesValue(Deref(users[i].cart, heap)) >= 0
  /\ \A i \in 1 .. Len(orders) : orders[i].total >= 0

\* The users table without the carts.
Accounts(us) == [i \in DOMAIN us |-> [us[i] EXCEPT !.cart = <<>>]]

OrderViews(os, h) == [i \in DOMAIN os |-> OrderView(os[i], h)]

\* Every user other than uid keeps the lines of the cart.
OtherCartsKept(uid) ==
  \A i \in 1 .. Len(users) :
    users[i].id # uid => Deref(users'[i].cart, heap') = Deref(users[i].cart, heap)

\* A cart request of uid leaves the other carts, the stock, the orders and
\* the registered users as they were.
CartFrame(uid) ==
  /\ OtherCartsKept(uid)
  /\ products' = products
  /\ OrderViews(orders', heap') = OrderViews(orders, heap)
  /\ Accounts(users') = Accounts(users)
  /\ pending' = pending

\* C19: an add, an update, a removal or a clear by user u changes u's cart
\* only; a checkout by u changes, besides, the orders and the stock only,
\* never another user's cart or the registered users.
C19_CartOpsConfined ==
  [][\A uid \in UserIds :
       /\ (res'.op = "addToCart" /\ res'.uid = uid
             /\ \E pid \in BodyProductIds, q \in Quantities : AddToCart(uid, pid, q))
            => CartFrame(uid)
       /\ (res'.op = "updateCartItem" /\ res'.uid = uid
             /\ \E param \in PathParams, q \in Quantities : UpdateCartItem(uid, param, q))
            => CartFrame(uid)
       /\ (res'.op = "removeCartItem" /\ res'.uid = uid
             /\ \E param \in PathParams : RemoveCartItem(uid, param))
            => CartFrame(uid)
       /\ (res'.op = "clearCart" /\ res'.uid = uid /\ ClearCart(uid))
            => CartFrame(uid)
       /\ (res'.op = "createOrder" /\ res'.uid = uid /\ CreateOrder(uid))
            => /\ OtherCartsKept(uid)
               /\ Accounts(users') = Accounts(users)
               /\ pending' = pending]_vars

\* C19 witness: a user cleared the cart while another user's cart held a line.
C19_Witness ==
  /\ res.op = "clearCart"
  /\ \E i \in 1 .. Len(users) : users[i].id # res.uid /\ users[i].cart # <<>>

====
